---- MODULE Spec2Model ----
(***************************************************************************)
(* The allowlist-rule and custom-field resources of the SendGrid Terraform *)
(* provider: every lifecycle handler (Create, Read, Update, Delete,        *)
(* ImportState) of both resources, run against a SendGrid client that      *)
(* keeps the records it is given.                                          *)
(*                                                                         *)
(* A framework value (types.Int64, types.String) is a tuple: <<>> is null  *)
(* and <<v>> is the known value v.  A resource state is a record of such   *)
(* values; the state with every attribute null is the empty state the      *)
(* framework hands to Create and ImportState as resp.State.                *)
(* A string the code parses is a tuple of one-character strings.           *)
(***************************************************************************)
EXTENDS Integers, Sequences, FiniteSets, TLC

\* The client numbers its records 9, 10, ... MaxID, so that identifiers of
\* one and of two decimal digits both occur.
MaxID == 10

IDs == 9..MaxID

Ips == {"1.2.3.4", "5.6.7.8"}

Names == {"foo", "bar"}

\* stringOneOf("text", "number", "date") of the schema; two of them suffice
\* for the plans drawn here.
Types == {"text", "number"}

Kinds == {"allowlist_rule", "custom_field"}

VARIABLES
    kind,          \* the kind of the resource the configuration declares
    allowlist,     \* the allowlist rules the API holds: records [id, ip]
    customFields,  \* the custom fields the API holds: records [id, name, type]
    nextID,        \* the identifier the API gives to the next record
    alState,       \* the Terraform state of the allowlist rule
    cfState,       \* the Terraform state of the custom field
    created,       \* what Create saved for each record the API still holds
    inv            \* the last lifecycle invocation: request, response, calls

vars == <<kind, allowlist, customFields, nextID, alState, cfState, created, inv>>

----------------------------------------------------------------------------
\* Framework values.

Null == <<>>

Known(v) == <<v>>

\* types.Int64.ValueInt64: the zero value when null.
ValueInt64(a) == IF a = Null THEN 0 ELSE a[1]

\* types.String.ValueString: the empty string when null.
ValueString(a) == IF a = Null THEN "" ELSE a[1]

NoAllowlistRule == [id |-> Null, ip |-> Null]

NoCustomField == [id |-> Null, name |-> Null, type |-> Null]

\* fmt.Sprintf of a message that holds err under the verb given ("%s", "%e"):
\* the text is kept as the pair, since "%e" does not print an error as "%s" does.
Sprintf(verb, err) == [verb |-> verb, err |-> err]

\* Diagnostics.AddError(summary, detail)
Diag(summary, detail) == [summary |-> summary, detail |-> detail]

Call(method, id, body) == [method |-> method, id |-> id, body |-> body]

----------------------------------------------------------------------------
\* strconv.ParseInt(s, 10, 64) and the decimal string of an identifier.

DigitVal ==
    [c \in {"0", "1", "2", "3", "4", "5", "6", "7", "8", "9"} |->
        CASE c = "0" -> 0 [] c = "1" -> 1 [] c = "2" -> 2 [] c = "3" -> 3
          [] c = "4" -> 4 [] c = "5" -> 5 [] c = "6" -> 6 [] c = "7" -> 7
          [] c = "8" -> 8 [] c = "9" -> 9]

DigitChar == <<"0", "1", "2", "3", "4", "5", "6", "7", "8", "9">>

IsDigit(c) == c \in DOMAIN DigitVal

RECURSIVE StripZeros(_)
StripZeros(d) ==
    IF Len(d) > 1 /\ d[1] = "0" THEN StripZeros(Tail(d)) ELSE d

\* a <= b for two digit strings of the same length
RECURSIVE DigitsLeq(_, _)
DigitsLeq(a, b) ==
    IF a = <<>> THEN TRUE
    ELSE IF DigitVal[a[1]] < DigitVal[b[1]] THEN TRUE
    ELSE IF DigitVal[a[1]] > DigitVal[b[1]] THEN FALSE
    ELSE DigitsLeq(Tail(a), Tail(b))

\* 2^63 - 1 and 2^63, the largest magnitudes of a positive and of a negative
\* int64, as digit strings (the model's integers are narrower than 64 bits).
MaxInt64Digits ==
    <<"9","2","2","3","3","7","2","0","3","6","8","5","4","7","7","5","8","0","7">>

MinInt64Digits ==
    <<"9","2","2","3","3","7","2","0","3","6","8","5","4","7","7","5","8","0","8">>

FitsInt64(digits, neg) ==
    LET d == StripZeros(digits)
        limit == IF neg THEN MinInt64Digits ELSE MaxInt64Digits
    IN  \/ Len(d) < Len(limit)
        \/ Len(d) = Len(limit) /\ DigitsLeq(d, limit)

RECURSIVE DigitsValue(_, _)
DigitsValue(d, acc) ==
    IF d = <<>> THEN acc ELSE DigitsValue(Tail(d), acc * 10 + DigitVal[d[1]])

\* [err, n]: err is "" and n the value, or err names the failure.
ParseInt(s) ==
    IF s = <<>> THEN [err |-> "invalid syntax", n |-> 0]
    ELSE LET neg == s[1] = "-"
             d == IF s[1] \in {"+", "-"} THEN Tail(s) ELSE s
         IN  IF d = <<>> \/ \E i \in 1..Len(d) : ~IsDigit(d[i])
             THEN [err |-> "invalid syntax", n |-> 0]
             ELSE IF ~FitsInt64(d, neg)
             THEN [err |-> "value out of range", n |-> 0]
             ELSE [err |-> "",
                   n |-> IF neg THEN 0 - DigitsValue(d, 0) ELSE DigitsValue(d, 0)]

RECURSIVE NatDigits(_)
NatDigits(n) ==
    IF n < 10 THEN <<DigitChar[n + 1]>>
    ELSE Append(NatDigits(n \div 10), DigitChar[(n % 10) + 1])

\* strconv.FormatInt(n, 10): the decimal string of an identifier
FormatInt(n) == IF n < 0 THEN <<"-">> \o NatDigits(0 - n) ELSE NatDigits(n)

\* The identifiers an import request is given: the decimal string of every
\* identifier the API can give, and strings that are no such decimal string.
ImportIDs ==
    {FormatInt(n) : n \in IDs}
        \cup { <<>>, <<"9", "x">>, <<"+", "9">>, <<"-", "9">>, <<"0", "9">>,
               MinInt64Digits }

----------------------------------------------------------------------------
\* The SendGrid client.  A call answers [err, ...]: err is "" on success.
\* fault is what the API does to the call besides serving it: "" (nothing),
\* "rate limited" or "api error".

RateLimited == "rate limited"

Faults == {"", RateLimited, "api error"}

Find(store, id) == {r \in store : r.id = id}

\* Client.GetAllowlistRule / Client.GetCustomField
ClientGet(store, id, fault) ==
    IF fault # "" THEN [err |-> fault, rec |-> <<>>]
    ELSE IF Find(store, id) = {} THEN [err |-> "not found", rec |-> <<>>]
    ELSE [err |-> "", rec |-> <<CHOOSE r \in Find(store, id) : TRUE>>]

\* Client.DeleteAllowlistRule: [err, store], store the records left
ClientDelete(store, id, fault) ==
    IF fault # "" THEN [err |-> fault, store |-> store]
    ELSE IF Find(store, id) = {} THEN [err |-> "not found", store |-> store]
    ELSE [err |-> "", store |-> store \ Find(store, id)]


\* Client.CreateAllowlistRule with one ip: [err, result, store].  The API
\* answers with the rules it created (shape "one": the rule for the ip, under
\* the identifier id) or with an empty list (shape "none").
ClientCreateAllowlistRule(store, id, ip, fault, shape) ==
    IF fault # "" THEN [err |-> fault, result |-> <<>>, store |-> store]
    ELSE IF shape = "none" THEN [err |-> "", result |-> <<>>, store |-> store]
    ELSE LET rule == [id |-> id, ip |-> ip]
         IN  [err |-> "", result |-> <<rule>>, store |-> store \cup {rule}]

Shapes == {"one", "none"}

\* Client.CreateCustomField: [err, field, store]
ClientCreateCustomField(store, id, name, type, fault) ==
    IF fault # "" THEN [err |-> fault, field |-> <<>>, store |-> store]
    ELSE LET f == [id |-> id, name |-> name, type |-> type]
         IN  [err |-> "", field |-> <<f>>, store |-> store \cup {f}]

----------------------------------------------------------------------------
\* retryOnRateLimit(ctx, f): f is called; on a rate-limit error the helper
\* waits and calls f again, at most MaxRetries times; any other answer, and
\* the answer of the last attempt, is returned.  answers[i] is what f answers
\* at attempt i.

MaxRetries == 1

Attempts == 1..(MaxRetries + 1)

RECURSIVE retryOnRateLimit(_, _)
retryOnRateLimit(answers, attempt) ==
    IF answers[attempt].err = RateLimited /\ attempt <= MaxRetries
    THEN LET r == retryOnRateLimit(answers, attempt + 1)
         IN  [r EXCEPT !.waits = @ + 1]
    ELSE [answer |-> answers[attempt], attempts |-> attempt, waits |-> 0]

\* What the API does to each attempt of one retried call.  An attempt that
\* is not rate limited is the last one made; the entries after it are never
\* consulted and are left "".
FaultSeqs ==
    {f \in [Attempts -> Faults] :
        \A i \in Attempts : (i > 1 /\ f[i - 1] # RateLimited) => f[i] = ""}

----------------------------------------------------------------------------
\* What a handler leaves behind: the response state, the diagnostics, the
\* client calls it made with the fault each met, the error the handler got
\* back from the client ("" for none), the waits between the calls, whether
\* the handler crashed, and the records the API holds afterwards.

Outcome(resp, diags, calls, faults, err, waits, panicked, store) ==
    [resp |-> resp, diags |-> diags, calls |-> calls, faults |-> faults,
     err |-> err, waits |-> waits, panicked |-> panicked, store |-> store]

Succeeded(out) == out.diags = <<>> /\ ~out.panicked

\* resp.State.SetAttribute(ctx, path.Root("id"), val).  The schema declares
\* "id" an Int64Attribute: a Go int64 is stored, a Go string is refused with
\* a conversion diagnostic and the state is left as it was.
SetAttributeID(state, goType, val) ==
    IF goType = "int64"
    THEN [state |-> [state EXCEPT !.id = Known(val)], diags |-> <<>>]
    ELSE [state |-> state,
          diags |-> <<Diag("Value Conversion Error", Sprintf("", goType))>>]

\* resource.ImportStatePassthroughID(ctx, path.Root("id"), req, resp):
\* SetAttribute of req.ID, which is a string.
ImportStatePassthroughID(state, reqID) == SetAttributeID(state, "string", reqID)

----------------------------------------------------------------------------
\* AllowlistRuleResource

AllowlistPlans == [id : {Null}, ip : {Known(ip) : ip \in Ips}]

AllowlistRuleCreate(plan, store, id, faults, shape, typed) ==
    LET ip == ValueString(plan.ip)
        answers == [i \in Attempts |->
                       ClientCreateAllowlistRule(store, id, ip, faults[i], shape)]
        r == retryOnRateLimit(answers, 1)
        res == r.answer
        calls == [i \in 1..r.attempts |-> Call("CreateAllowlistRule", 0, <<ip>>)]
        met == SubSeq(faults, 1, r.attempts)
    IN  IF res.err # ""
        THEN Outcome(NoAllowlistRule,
                     <<Diag("Creating AllowlistRule", Sprintf("%s", res.err))>>,
                     calls, met, res.err, r.waits, FALSE, res.store)
        ELSE IF ~typed
        THEN Outcome(NoAllowlistRule,
                     <<Diag("Creating AllowlistRule",
                            Sprintf("", "Failed to assert type"))>>,
                     calls, met, "", r.waits, FALSE, res.store)
        ELSE IF res.result = <<>>
        THEN \* o.Result[0] of an empty list: index out of range
             Outcome(NoAllowlistRule, <<>>, calls, met, "", r.waits, TRUE, res.store)
        ELSE LET one == res.result[1]
             IN  Outcome([id |-> Known(one.id), ip |-> Known(one.ip)], <<>>,
                         calls, met, "", r.waits, FALSE, res.store)

\* A plausible slip: the ip of the state is kept, not the one the API holds.
AllowlistRuleRead_KeepsIp(state, store, fault) ==
    LET id == ValueInt64(state.id)
        o == ClientGet(store, id, fault)
        calls == <<Call("GetAllowlistRule", id, <<>>)>>
    IN  IF o.err # ""
        THEN Outcome(state, <<Diag("Reading AllowlistRule", Sprintf("%e", o.err))>>,
                     calls, <<fault>>, o.err, 0, FALSE, store)
        ELSE Outcome([id |-> Known(id), ip |-> state.ip], <<>>,
                     calls, <<fault>>, "", 0, FALSE, store)

AllowlistRuleRead(state, store, fault) ==
    LET id == ValueInt64(state.id)
        o == ClientGet(store, id, fault)
        calls == <<Call("GetAllowlistRule", id, <<>>)>>
    IN  IF o.err # ""
        THEN Outcome(state, <<Diag("Reading AllowlistRule", Sprintf("%e", o.err))>>,
                     calls, <<fault>>, o.err, 0, FALSE, store)
        ELSE Outcome([id |-> Known(id), ip |-> Known(o.rec[1].ip)], <<>>,
                     calls, <<fault>>, "", 0, FALSE, store)

\* req.Plan.Get and req.State.Get into an apiKeyResourceModel: the attributes
\* of the allowlist rule are carried over as they are.
apiKeyResourceModel(obj) == [id |-> obj.id, ip |-> obj.ip]

\* A plausible slip: the prior state is set, not the plan.
AllowlistRuleUpdate_SetsState(plan, state, store) ==
    LET data == apiKeyResourceModel(state)
    IN  Outcome(data, <<>>, <<>>, <<>>, "", 0, FALSE, store)

AllowlistRuleUpdate(plan, state, store) ==
    LET data == apiKeyResourceModel(plan)
    IN  Outcome(data, <<>>, <<>>, <<>>, "", 0, FALSE, store)

\* A plausible slip: the client is called directly, not through the retry.
AllowlistRuleDelete_NoRetry(state, store, faults) ==
    LET idint64 == ValueInt64(state.id)
        res == ClientDelete(store, idint64, faults[1])
        calls == <<Call("DeleteAllowlistRule", idint64, <<>>)>>
    IN  IF res.err # ""
        THEN Outcome(state,
                     <<Diag("Deleting Allowlist Rule", Sprintf("%s", res.err))>>,
                     calls, <<faults[1]>>, res.err, 0, FALSE, res.store)
        ELSE Outcome(state, <<>>, calls, <<faults[1]>>, "", 0, FALSE, res.store)

AllowlistRuleDelete(state, store, faults) ==
    LET idint64 == ValueInt64(state.id)
        answers == [i \in Attempts |-> ClientDelete(store, idint64, faults[i])]
        r == retryOnRateLimit(answers, 1)
        calls == [i \in 1..r.attempts |-> Call("DeleteAllowlistRule", idint64, <<>>)]
        met == SubSeq(faults, 1, r.attempts)
    IN  IF r.answer.err # ""
        THEN Outcome(state,
                     <<Diag("Deleting Allowlist Rule", Sprintf("%s", r.answer.err))>>,
                     calls, met, r.answer.err, r.waits, FALSE, r.answer.store)
        ELSE Outcome(state, <<>>, calls, met, "", r.waits, FALSE, r.answer.store)

AllowlistRuleImportState(reqID, store, fault) ==
    LET p == ParseInt(reqID)
        idInt64 == p.n
        set == SetAttributeID(NoAllowlistRule, "int64", idInt64)
        o == ClientGet(store, idInt64, fault)
        calls == <<Call("GetAllowlistRule", idInt64, <<>>)>>
    IN  IF p.err # ""
        THEN Outcome(NoAllowlistRule,
                     <<Diag("Importing AllowlistRule", Sprintf("%s", p.err))>>,
                     <<>>, <<>>, "", 0, FALSE, store)
        ELSE IF o.err # ""
        THEN Outcome(set.state,
                     set.diags \o
                       <<Diag("Importing AllowlistRule", Sprintf("%s", o.err))>>,
                     calls, <<fault>>, o.err, 0, FALSE, store)
        ELSE Outcome([id |-> Known(idInt64), ip |-> Known(o.rec[1].ip)],
                     set.diags, calls, <<fault>>, "", 0, FALSE, store)

----------------------------------------------------------------------------
\* CustomFieldResource

CustomFieldPlans ==
    [id : {Null}, name : {Known(n) : n \in Names}, type : {Known(t) : t \in Types}]

\* A plausible slip: the name is filled from the type.
CreatedCustomField_NameFromType(o) ==
    [id |-> Known(o.id), name |-> Known(o.type), type |-> Known(o.type)]

\* plan = CustomFieldResourceModel{ID: o.ID, Name: o.Name, Type: o.Type}
CreatedCustomField(o) ==
    [id |-> Known(o.id), name |-> Known(o.name), type |-> Known(o.type)]

CustomFieldCreate(plan, store, id, faults, typed) ==
    LET name == ValueString(plan.name)
        type == ValueString(plan.type)
        answers == [i \in Attempts |->
                       ClientCreateCustomField(store, id, name, type, faults[i])]
        r == retryOnRateLimit(answers, 1)
        res == r.answer
        calls == [i \in 1..r.attempts |-> Call("CreateCustomField", 0, <<name, type>>)]
        met == SubSeq(faults, 1, r.attempts)
    IN  IF res.err # ""
        THEN Outcome(NoCustomField,
                     <<Diag("Creating CustomField", Sprintf("%s", res.err))>>,
                     calls, met, res.err, r.waits, FALSE, res.store)
        ELSE IF ~typed
        THEN Outcome(NoCustomField,
                     <<Diag("Creating CustomField",
                            Sprintf("", "Failed to assert type"))>>,
                     calls, met, "", r.waits, FALSE, res.store)
        ELSE Outcome(CreatedCustomField(res.field[1]), <<>>,
                     calls, met, "", r.waits, FALSE, res.store)

\* A plausible slip: the error of the client is not checked before the
\* state is set from what the client returned.
CustomFieldRead_NoErrorCheck(state, store, fault) ==
    LET id == ValueInt64(state.id)
        o == ClientGet(store, id, fault)
        calls == <<Call("GetCustomField", id, <<>>)>>
    IN  IF o.err # ""
        THEN Outcome([id |-> Known(id), name |-> Known(""), type |-> Known("")],
                     <<>>, calls, <<fault>>, o.err, 0, FALSE, store)
        ELSE Outcome([id |-> Known(id), name |-> Known(o.rec[1].name),
                      type |-> Known(o.rec[1].type)], <<>>,
                     calls, <<fault>>, "", 0, FALSE, store)

CustomFieldRead(state, store, fault) ==
    LET id == ValueInt64(state.id)
        o == ClientGet(store, id, fault)
        calls == <<Call("GetCustomField", id, <<>>)>>
    IN  IF o.err # ""
        THEN Outcome(state, <<Diag("Reading CustomField", Sprintf("%e", o.err))>>,
                     calls, <<fault>>, o.err, 0, FALSE, store)
        ELSE Outcome([id |-> Known(id), name |-> Known(o.rec[1].name),
                      type |-> Known(o.rec[1].type)], <<>>,
                     calls, <<fault>>, "", 0, FALSE, store)

\* The body of Update is commented out: nothing is read and nothing is set.
CustomFieldUpdate(state, store) ==
    Outcome(state, <<>>, <<>>, <<>>, "", 0, FALSE, store)

\* Delete reads the state's id and drops it: no client call is made.
CustomFieldDelete(state, store) ==
    Outcome(state, <<>>, <<>>, <<>>, "", 0, FALSE, store)

CustomFieldImportState(reqID, store, fault) ==
    LET p == ParseInt(reqID)
        idInt64 == p.n
        set == ImportStatePassthroughID(NoCustomField, reqID)
        o == ClientGet(store, idInt64, fault)
        calls == <<Call("GetCustomField", idInt64, <<>>)>>
    IN  IF p.err # ""
        THEN Outcome(NoCustomField,
                     <<Diag("Importing CustomField", Sprintf("%s", p.err))>>,
                     <<>>, <<>>, "", 0, FALSE, store)
        ELSE IF o.err # ""
        THEN Outcome(set.state,
                     set.diags \o
                       <<Diag("Importing CustomField", Sprintf("%s", o.err))>>,
                     calls, <<fault>>, o.err, 0, FALSE, store)
        ELSE Outcome([id |-> Known(idInt64), name |-> Known(o.rec[1].name),
                      type |-> Known(o.rec[1].type)],
                     set.diags, calls, <<fault>>, "", 0, FALSE, store)

----------------------------------------------------------------------------
\* The record of an invocation: its request (plan, or import identifier), the
\* response state as the framework set it up (entry) and as the handler left
\* it (resp), whether the API held a record under the entry state's id when
\* the handler was entered, whether the invocation before it was a Create
\* that succeeded, whether the API's records changed, and what the handler did.

Invocation(op, plan, reqID, entry, before, out) ==
    [op |-> op, plan |-> plan, reqID |-> reqID, entry |-> entry,
     existed |-> Find(before, ValueInt64(entry.id)) # {},
     afterCreate |-> inv.op = "Create" /\ Succeeded(inv),
     changed |-> out.store # before,
     resp |-> out.resp, diags |-> out.diags, calls |-> out.calls,
     faults |-> out.faults, err |-> out.err, waits |-> out.waits,
     panicked |-> out.panicked]

\* The state Terraform keeps after the invocation: the response state, unless
\* the invocation failed.
Commit(state, out) == IF Succeeded(out) THEN out.resp ELSE state

\* created, once Create has left out
Remember(out) ==
    [n \in IDs |->
        IF Succeeded(out) /\ out.resp.id = Known(n) THEN <<out.resp>>
        ELSE created[n]]

\* created, once the API holds no more than store
Forget(store) ==
    [n \in IDs |-> IF Find(store, n) = {} THEN <<>> ELSE created[n]]

AllowlistCreate ==
    /\ kind = "allowlist_rule"
    /\ nextID <= MaxID
    /\ \E plan \in AllowlistPlans, faults \in FaultSeqs,
          shape \in Shapes, typed \in BOOLEAN :
          \E out \in {AllowlistRuleCreate(plan, allowlist, nextID, faults, shape, typed)} :
              /\ allowlist' = out.store
              /\ nextID' = IF out.store # allowlist THEN nextID + 1 ELSE nextID
              /\ alState' = Commit(alState, out)
              /\ created' = Remember(out)
              /\ inv' = Invocation("Create", plan, <<>>, NoAllowlistRule,
                                   allowlist, out)
    /\ UNCHANGED <<kind, customFields, cfState>>

AllowlistRead ==
    /\ kind = "allowlist_rule"
    /\ alState # NoAllowlistRule
    /\ \E fault \in Faults :
          \E out \in {AllowlistRuleRead(alState, allowlist, fault)} :
              /\ alState' = Commit(alState, out)
              /\ inv' = Invocation("Read", NoAllowlistRule, <<>>, alState,
                                   allowlist, out)
    /\ UNCHANGED <<kind, allowlist, customFields, nextID, cfState, created>>

\* "id" is computed: the plan of an update holds the state's id, or none yet.
AllowlistUpdatePlans(state) ==
    [id : {Null, state.id}, ip : {Known(ip) : ip \in Ips}]

AllowlistUpdate ==
    /\ kind = "allowlist_rule"
    /\ alState # NoAllowlistRule
    /\ \E plan \in AllowlistUpdatePlans(alState) :
          \E out \in {AllowlistRuleUpdate(plan, alState, allowlist)} :
              /\ allowlist' = out.store
              /\ alState' = Commit(alState, out)
              /\ inv' = Invocation("Update", plan, <<>>, alState, allowlist, out)
    /\ UNCHANGED <<kind, customFields, nextID, cfState, created>>

\* After a Delete without error the framework removes the resource's state.
AllowlistDelete ==
    /\ kind = "allowlist_rule"
    /\ alState # NoAllowlistRule
    /\ \E faults \in FaultSeqs :
          \E out \in {AllowlistRuleDelete(alState, allowlist, faults)} :
              /\ allowlist' = out.store
              /\ alState' = IF Succeeded(out) THEN NoAllowlistRule ELSE alState
              /\ created' = Forget(out.store)
              /\ inv' = Invocation("Delete", NoAllowlistRule, <<>>, alState,
                                   allowlist, out)
    /\ UNCHANGED <<kind, customFields, nextID, cfState>>

AllowlistImport ==
    /\ kind = "allowlist_rule"
    /\ \E reqID \in ImportIDs, fault \in Faults :
          \E out \in {AllowlistRuleImportState(reqID, allowlist, fault)} :
              /\ alState' = Commit(alState, out)
              /\ inv' = Invocation("ImportState", NoAllowlistRule, reqID,
                                   NoAllowlistRule, allowlist, out)
    /\ UNCHANGED <<kind, allowlist, customFields, nextID, cfState, created>>

CustomCreate ==
    /\ kind = "custom_field"
    /\ nextID <= MaxID
    /\ \E plan \in CustomFieldPlans, faults \in FaultSeqs, typed \in BOOLEAN :
          \E out \in {CustomFieldCreate(plan, customFields, nextID, faults, typed)} :
              /\ customFields' = out.store
              /\ nextID' = IF out.store # customFields THEN nextID + 1 ELSE nextID
              /\ cfState' = Commit(cfState, out)
              /\ created' = Remember(out)
              /\ inv' = Invocation("Create", plan, <<>>, NoCustomField,
                                   customFields, out)
    /\ UNCHANGED <<kind, allowlist, alState>>

CustomRead ==
    /\ kind = "custom_field"
    /\ cfState # NoCustomField
    /\ \E fault \in Faults :
          \E out \in {CustomFieldRead(cfState, customFields, fault)} :
              /\ cfState' = Commit(cfState, out)
              /\ inv' = Invocation("Read", NoCustomField, <<>>, cfState,
                                   customFields, out)
    /\ UNCHANGED <<kind, allowlist, customFields, nextID, alState, created>>

CustomUpdate ==
    /\ kind = "custom_field"
    /\ cfState # NoCustomField
    /\ \E out \in {CustomFieldUpdate(cfState, customFields)} :
           /\ customFields' = out.store
           /\ cfState' = Commit(cfState, out)
           /\ inv' = Invocation("Update", NoCustomField, <<>>, cfState,
                                customFields, out)
    /\ UNCHANGED <<kind, allowlist, nextID, alState, created>>

CustomDelete ==
    /\ kind = "custom_field"
    /\ cfState # NoCustomField
    /\ \E out \in {CustomFieldDelete(cfState, customFields)} :
           /\ customFields' = out.store
           /\ cfState' = IF Succeeded(out) THEN NoCustomField ELSE cfState
           /\ created' = Forget(out.store)
           /\ inv' = Invocation("Delete", NoCustomField, <<>>, cfState,
                                customFields, out)
    /\ UNCHANGED <<kind, allowlist, nextID, alState>>

CustomImport ==
    /\ kind = "custom_field"
    /\ \E reqID \in ImportIDs, fault \in Faults :
          \E out \in {CustomFieldImportState(reqID, customFields, fault)} :
              /\ cfState' = Commit(cfState, out)
              /\ inv' = Invocation("ImportState", NoCustomField, reqID,
                                   NoCustomField, customFields, out)
    /\ UNCHANGED <<kind, allowlist, customFields, nextID, alState, created>>

----------------------------------------------------------------------------
Idle ==
    [op |-> "none", plan |-> <<>>, reqID |-> <<>>, entry |-> <<>>,
     existed |-> FALSE, afterCreate |-> FALSE, changed |-> FALSE,
     resp |-> <<>>, diags |-> <<>>, calls |-> <<>>, faults |-> <<>>,
     err |-> "", waits |-> 0, panicked |-> FALSE]

\* A configuration declares one resource, of either kind; nothing has been
\* created yet.
Init ==
    /\ kind \in Kinds
    /\ allowlist = {}
    /\ customFields = {}
    /\ nextID = 9
    /\ alState = NoAllowlistRule
    /\ cfState = NoCustomField
    /\ created = [n \in IDs |-> <<>>]
    /\ inv = Idle

Next ==
    \/ AllowlistCreate
    \/ AllowlistRead
    \/ AllowlistUpdate
    \/ AllowlistDelete
    \/ AllowlistImport
    \/ CustomCreate
    \/ CustomRead
    \/ CustomUpdate
    \/ CustomDelete
    \/ CustomImport

Spec == Init /\ [][Next]_vars

\* The resource of the configuration's kind: its state and the API's records.
State == IF kind = "allowlist_rule" THEN alState ELSE cfState

Store == IF kind = "allowlist_rule" THEN allowlist ELSE customFields

----------------------------------------------------------------------------
\* The properties.

Served == inv.faults = <<"">>

Carries(err) == \E i \in DOMAIN inv.diags : inv.diags[i].detail.err = err

GetMethod == IF kind = "allowlist_rule" THEN "GetAllowlistRule" ELSE "GetCustomField"

\* C1: a Delete that is given the id of a record the API holds and ends
\* without an error diagnostic leaves the API without that record, for both
\* resource kinds.
C1_DeleteRemovesRecord ==
    (inv.op = "Delete" /\ inv.existed /\ Succeeded(inv))
        => Find(Store, ValueInt64(inv.entry.id)) = {}

\* C2: a Create that succeeds saves a state whose fields are those of the plan
\* it was given: ip for an allowlist rule, name and type for a custom field.
C2_CreateRoundTrips ==
    (inv.op = "Create" /\ Succeeded(inv))
        => /\ State = inv.resp
           /\ kind = "allowlist_rule" => inv.resp.ip = inv.plan.ip
           /\ kind = "custom_field"
                => inv.resp.name = inv.plan.name /\ inv.resp.type = inv.plan.type

C2_Witness ==
    /\ inv.op = "Create"
    /\ Succeeded(inv)
    /\ kind = "custom_field"
    /\ inv.plan.name = Known("bar")
    /\ inv.plan.type = Known("number")

\* C3: an ImportState given the decimal string of the id of a record that a
\* Create made and the API still holds, and served by the API, ends without
\* an error diagnostic and with the state that Create saved, for both
\* resource kinds.
C3_ImportReconstructs ==
    \A n \in IDs :
        (inv.op = "ImportState" /\ inv.reqID = FormatInt(n)
            /\ created[n] # <<>> /\ Served)
            => Succeeded(inv) /\ inv.resp = created[n][1]

\* C4: a Read run directly after a successful Create, and served by the API,
\* succeeds and leaves the state Create saved; and every Read that succeeds
\* keeps the id of the state and sets each other field to what the API holds
\* under that id.
C4_ReadReproduces ==
    /\ (inv.op = "Read" /\ inv.afterCreate /\ Served)
          => /\ Succeeded(inv)
             /\ inv.resp = inv.entry
             /\ State = inv.entry
             /\ created[ValueInt64(inv.entry.id)] = <<inv.entry>>
    /\ (inv.op = "Read" /\ Succeeded(inv))
          => /\ inv.resp.id = inv.entry.id
             /\ State = inv.resp
             /\ \E r \in Find(Store, ValueInt64(inv.entry.id)) :
                   IF kind = "allowlist_rule"
                   THEN inv.resp.ip = Known(r.ip)
                   ELSE inv.resp.name = Known(r.name) /\ inv.resp.type = Known(r.type)

\* a Read directly after the Create of a custom field, served by the API
C4_Witness ==
    /\ inv.op = "Read"
    /\ inv.afterCreate
    /\ Served
    /\ kind = "custom_field"
    /\ inv.resp = [id |-> Known(9), name |-> Known("bar"), type |-> Known("number")]

\* C5: every Create, Read, Delete, and ImportState of a parsable identifier
\* issues one client call, never none and never two different ones (the
\* attempts of a retried call count as the one call they repeat).
C5_OneClientCall ==
    (\/ inv.op \in {"Create", "Read", "Delete"}
     \/ inv.op = "ImportState" /\ ParseInt(inv.reqID).err = "")
        => Cardinality({inv.calls[i] : i \in DOMAIN inv.calls}) = 1

C9_ImportParsesID ==
    inv.op = "ImportState"
        => IF ParseInt(inv.reqID).err # ""
           THEN inv.diags # <<>> /\ inv.calls = <<>> /\ inv.resp = inv.entry
           ELSE /\ inv.calls = <<Call(GetMethod, ParseInt(inv.reqID).n, <<>>)>>
                /\ inv.resp.id = Known(ParseInt(inv.reqID).n)

\* C10: a Create of the allowlist rule ends by saving a state or by adding an
\* error diagnostic whatever the client answered; it never indexes an empty
\* Result.
C10_CreateNeverCrashes ==
    (inv.op = "Create" /\ kind = "allowlist_rule") => ~inv.panicked

====
